---- MODULE Spec2Model ----
(***************************************************************************)
(* Resume matcher: the candidate/job store, the upload and job-creation    *)
(* handlers, and the two-pass ranking handler match_candidates with the    *)
(* composite scorer and the Groq qualitative assessor it calls; and the    *)
(* skill matcher, the composite scorer and the resume parser (text         *)
(* extraction, name, experience years, work history) called directly.      *)
(*                                                                         *)
(* Numbers.  Python floats are modelled as exact fixed-point integers:     *)
(* every score component (similarity, covers, llm) is an integer count of  *)
(* 1/Unit, and a composite "final" is an integer count of 1/(100*Unit).    *)
(* Unit is a common multiple of the squared embedding norm, of the skill   *)
(* list lengths and of 100, so that the values the model draws are exact.  *)
(* round(x, n) is round-half-to-even on the exact value.                   *)
(* An LLM fit score is an integer count of tenths (7.5 is 75).             *)
(***************************************************************************)
EXTENDS Integers, Sequences, FiniteSets, TLC

VARIABLES
    candidates,     \* the candidates table, in id order
    jobs,           \* the jobs table, in id order
    model,          \* embedder._model: "none" until the encoder has been loaded
    pc,             \* "idle", "rescoring" (a rank request in its loop), "done"
    req,            \* the rank request being served / last served
    prelim,         \* match_candidates' local list prelim (after the sort)
    shortlist,      \* match_candidates' local list shortlist
    idx,            \* position of the re-scoring loop in shortlist
    results,        \* match_candidates' local list results
    calls,          \* the assessor calls made by the request, and their answers
    response,       \* the HTTP response of the last handler that returned
    replay,         \* the response and calls of the request being repeated
    call,           \* a direct call of a scorer or parser function: name, arguments
    ret,            \* what that call returned or raised; NoReturn while it runs
    threads,        \* the threads calling embed(): position, locals
    encoder         \* the SentenceTransformer instances built; the one _model holds

vars == <<candidates, jobs, model, pc, req, prelim, shortlist, idx,
          results, calls, response, replay, call, ret, threads, encoder>>

-----------------------------------------------------------------------------
(* Bounds of the model *)

MaxCands == 6
MaxJobs == 1
MaxTopK == 2
MaxSkills == 2       \* length of the skill lists given to the skill matcher
MaxTokens == 3       \* experience statements and role keywords in a resume text
MaxMatches == 2      \* work-history template matches in a resume text
MaxThreads == 3      \* threads of the server's pool calling embed() at once

-----------------------------------------------------------------------------
(* Values *)

NoEmbedding == <<>>          \* Python None in an embedding column
NoName == "<null>"           \* Python None as a candidate name
NoScore == 0 - 1             \* Python None as llm_score / llm_fit
NoResponse == [op |-> "none", status |-> 0, body |-> <<>>]
NoReplay == [on |-> FALSE, response |-> NoResponse, calls |-> <<>>]
NoRequest == [job_id |-> 0, top_k |-> 0]
NoCall == [fn |-> "none", args |-> <<>>]
NoReturn == [raised |-> "running"]
NoYears == 0 - 1             \* Python None as total_years
NoInstance == 0              \* Python None as an encoder instance

VecScale == 5 * 13           \* embedding components are counts of 1/VecScale
Unit == 12 * VecScale * VecScale

Min(a, b) == IF a < b THEN a ELSE b
Max(a, b) == IF a > b THEN a ELSE b

ToSet(s) == {s[i] : i \in DOMAIN s}

\* str.lower() on the skill vocabulary of the model
Lower(s) ==
    CASE s = "Python" -> "python"
      [] s = "AWS" -> "aws"
      [] s = "SQL" -> "sql"
      [] s = "Java" -> "java"
      [] s = "Software Engineer" -> "software engineer"
      [] s = "Acme Corp" -> "acme corp"
      [] s = "ACME CORP" -> "acme corp"
      [] s = ".PDF" -> ".pdf"
      [] OTHER -> s

\* f"{x}" of a name: None is rendered "None"
Str(name) == IF name = NoName THEN "None" ELSE name

\* ' '.join(skills)
RECURSIVE Join(_)
Join(s) ==
    IF s = <<>> THEN ""
    ELSE IF Len(s) = 1 THEN s[1]
    ELSE s[1] \o " " \o Join(Tail(s))

\* round-half-to-even of n/d, d > 0
RoundHalfEven(n, d) ==
    LET a == IF n < 0 THEN 0 - n ELSE n
        q == a \div d
        r == a % d
        m == IF 2 * r > d THEN q + 1
             ELSE IF 2 * r < d THEN q
             ELSE IF q % 2 = 0 THEN q ELSE q + 1
    IN  IF n < 0 THEN 0 - m ELSE m

\* round(100 * final, 2), as a count of 1/100
RoundScore(final) == RoundHalfEven(final * 100, Unit)

\* round(v, 3) of a component, as a count of 1/1000
Round3(v) == RoundHalfEven(v * 1000, Unit)

\* round(final, 3), as a count of 1/1000
Round3Final(final) == RoundHalfEven(final * 10, Unit)

-----------------------------------------------------------------------------
(* matching/embedder.py *)

\* embed(text): the sentence encoder, a fixed function of the text
Embed(text) ==
    CASE text = "None AWS" -> <<39, 52>>
      [] text = "Ann Lee Python" -> <<60, 25>>
      [] text = "backend engineer" -> <<25, 60>>
      [] OTHER -> <<52, 39>>

\* np.dot raises TypeError when an operand is None
CosineRaises(a, b) == a = NoEmbedding \/ b = NoEmbedding

RECURSIVE Dot(_, _)
Dot(a, b) ==
    IF a = <<>> \/ b = <<>> THEN 0
    ELSE a[1] * b[1] + Dot(Tail(a), Tail(b))

\* cosine(a, b) = float(np.dot(a, b)), in 1/Unit
cosine(a, b) == Dot(a, b) * (Unit \div (VecScale * VecScale))

-----------------------------------------------------------------------------
(* matching/scorer.py *)

W_SIM == 45
W_REQ == 35
W_NICE == 10
W_LLM == 10

\* Cover with the candidate's skills as the denominator
CoverOverCandidate(s, r) ==
    (Unit * Cardinality(s \cap r)) \div (IF Cardinality(s) = 0 THEN 1 ELSE Cardinality(s))

\* len(s & r) / (len(r) or 1), in 1/Unit
Cover(s, r) ==
    (Unit * Cardinality(s \cap r)) \div (IF Cardinality(r) = 0 THEN 1 ELSE Cardinality(r))

\* rule_skill_overlap without the lower-casing
rule_skill_overlap_cased(c_skills, required, nice) ==
    [req_cover |-> Cover(ToSet(c_skills), ToSet(required)),
     nice_cover |-> Cover(ToSet(c_skills), ToSet(nice))]

rule_skill_overlap(c_skills, required, nice) ==
    LET s == {Lower(x) : x \in ToSet(c_skills)}
        r == {Lower(x) : x \in ToSet(required)}
        n == {Lower(x) : x \in ToSet(nice)}
    IN  [req_cover |-> Cover(s, r), nice_cover |-> Cover(s, n)]

\* LlmNorm with a neutral 0.5 for an absent score
LlmNormNeutral(llm_score) ==
    IF llm_score = NoScore THEN Unit \div 2
    ELSE Max(0, Min(Unit, (llm_score * Unit) \div 100))

\* max(0.0, min(1.0, llm_score / 10.0)), in 1/Unit; 0 when llm_score is None
LlmNorm(llm_score) ==
    IF llm_score = NoScore THEN 0
    ELSE Max(0, Min(Unit, (llm_score * Unit) \div 100))

\* composite_score with the LLM weight doubled
composite_score_heavy_llm(cand_embedding, job_embedding, c_skills, required, nice, llm_score) ==
    LET sim == cosine(cand_embedding, job_embedding)
        covers == rule_skill_overlap(c_skills, required, nice)
        llm_norm == LlmNorm(llm_score)
        base == W_SIM * sim + W_REQ * covers.req_cover
                + W_NICE * covers.nice_cover + 2 * W_LLM * llm_norm
    IN  [similarity |-> sim,
         req_cover |-> covers.req_cover,
         nice_cover |-> covers.nice_cover,
         llm |-> llm_norm,
         final |-> base]

composite_score(cand_embedding, job_embedding, c_skills, required, nice, llm_score) ==
    LET sim == cosine(cand_embedding, job_embedding)
        covers == rule_skill_overlap(c_skills, required, nice)
        llm_norm == LlmNorm(llm_score)
        base == W_SIM * sim + W_REQ * covers.req_cover
                + W_NICE * covers.nice_cover + W_LLM * llm_norm
    IN  [similarity |-> sim,
         req_cover |-> covers.req_cover,
         nice_cover |-> covers.nice_cover,
         llm |-> llm_norm,
         final |-> base]

-----------------------------------------------------------------------------
(* matching/llm_groq.py *)

\* What the HTTP call to the Groq endpoint can come back with.
\*   kind:    "ok" (a 2xx body with choices[0].message.content), or the
\*            exception raised by requests.post / raise_for_status / json()
\*   content: "object" (content parses to a JSON object), "array" (parses,
\*            but not to an object), "not_json" (json.loads fails)
\*   fit_kind: "num", "missing", "text" (a non-numeric string), "null",
\*            "nan" (the JSON literal NaN)
Response(kind, content, fit_kind, fit, bullets, concerns, text) ==
    [kind |-> kind, content |-> content, fit_kind |-> fit_kind, fit |-> fit,
     bullets |-> bullets, concerns |-> concerns, text |-> text]

RespGood == Response("ok", "object", "num", 100, <<"strong fit">>, <<>>, "{...}")
RespTimeout == Response("timeout", "object", "missing", 0, <<>>, <<>>, "Read timed out")
RespConnError == Response("conn_error", "object", "missing", 0, <<>>, <<>>, "Connection refused")
RespNotJson == Response("ok", "not_json", "missing", 0, <<>>, <<>>, "Sorry, I cannot")

\* The assessor "fails": the call raised, or its answer is not the JSON object asked for
Failed(resp) == resp.kind # "ok" \/ resp.content # "object"

\* The value of the except branch at the end of llm_match_groq
GroqErrorVerdict(msg) ==
    [bullets |-> <<>>, fit_score |-> 50, concerns |-> <<msg>>]

\* ClampFit without the clamp
ClampFitNone(fit) == fit

\* max(1.0, min(10.0, fit)), in tenths
ClampFit(fit) == Max(10, Min(100, fit))

\* llm_match_groq(jd_text, resume_text, name), given what the endpoint answers.
\* raised: whether an exception leaves the function.
llm_match_groq(jd_text, resume_text, name, resp) ==
    IF resp.kind # "ok"
    THEN [raised |-> FALSE, value |-> GroqErrorVerdict(resp.text)]
    ELSE IF resp.content = "not_json"
    THEN [raised |-> FALSE,
          value |-> [bullets |-> <<resp.text>>, fit_score |-> ClampFit(50), concerns |-> <<>>]]
    ELSE IF resp.content = "array"
    THEN [raised |-> FALSE, value |-> GroqErrorVerdict("'list' object has no attribute 'get'")]
    ELSE IF resp.fit_kind = "null"
    THEN [raised |-> FALSE, value |-> GroqErrorVerdict("float() argument must be a string or a number")]
    ELSE IF resp.fit_kind = "nan"
    THEN [raised |-> FALSE,
          value |-> [bullets |-> resp.bullets, fit_score |-> 100,
                     concerns |-> resp.concerns]]
    ELSE LET fit == IF resp.fit_kind = "num" THEN resp.fit ELSE 50
         IN  [raised |-> FALSE,
              value |-> [bullets |-> resp.bullets, fit_score |-> ClampFit(fit),
                         concerns |-> resp.concerns]]

-----------------------------------------------------------------------------
(* app.py: match_candidates *)

MinShortlist == 5

UNAVAILABLE == "LLM scoring unavailable"

\* the dict of the except branch of the re-scoring loop
Sentinel ==
    [summary_bullets |-> <<UNAVAILABLE>>, key_strengths |-> <<>>,
     concerns |-> <<>>, reasoning |-> ""]

\* llm.get(key) of a list-valued key: a missing key is None
Get(llm, key) == IF key \in DOMAIN llm THEN llm[key] ELSE <<>>

\* the try/except around the assessor call
Assess(job, c, resp) ==
    LET out == llm_match_groq(job.jd_text, c.raw_text, c.name, resp)
    IN  IF out.raised
        THEN [llm |-> Sentinel, llm_fit |-> NoScore]
        ELSE [llm |-> out.value,
              llm_fit |-> IF "fit_score" \in DOMAIN out.value
                          THEN out.value.fit_score ELSE NoScore]

Bulleted(items) == [i \in DOMAIN items |-> "- " \o items[i]]

\* justification_lines
Justification(llm) ==
    (IF Get(llm, "summary_bullets") # <<>>
     THEN <<"**Summary:**">> \o Bulleted(llm.summary_bullets) ELSE <<>>)
    \o (IF Get(llm, "key_strengths") # <<>>
        THEN <<"\n**Key Strengths:**">> \o Bulleted(llm.key_strengths) ELSE <<>>)
    \o (IF Get(llm, "concerns") # <<>>
        THEN <<"\n**Concerns:**">> \o Bulleted(llm.concerns) ELSE <<>>)
    \o (IF "reasoning" \in DOMAIN llm /\ llm.reasoning # ""
        THEN <<"\n**Reasoning:** " \o llm.reasoning>> ELSE <<>>)

MatchResult(c, final_comps, llm) ==
    [candidate_id |-> c.id,
     candidate_name |-> c.name,
     score |-> RoundScore(final_comps.final),
     components |-> [similarity |-> Round3(final_comps.similarity),
                     req_cover |-> Round3(final_comps.req_cover),
                     nice_cover |-> Round3(final_comps.nice_cover),
                     llm |-> Round3(final_comps.llm),
                     final |-> Round3Final(final_comps.final)],
     justification |-> Justification(llm)]

\* list.sort(key=..., reverse=True): stable, descending.
\* InsertDesc puts index i after every index whose key is >= keys[i].
RECURSIVE InsertDesc(_, _, _)
InsertDesc(sorted, i, keys) ==
    IF sorted = <<>> THEN <<i>>
    ELSE IF keys[sorted[1]] >= keys[i]
         THEN <<sorted[1]>> \o InsertDesc(Tail(sorted), i, keys)
         ELSE <<i>> \o sorted

\* the order (a sequence of indices) the sort puts keys[1..n] in
RECURSIVE SortOrder(_, _)
SortOrder(keys, n) ==
    IF n = 0 THEN <<>>
    ELSE InsertDesc(SortOrder(keys, n - 1), n, keys)

\* s sorted by keys, keys[i] being the key of s[i]
SortDesc(s, keys) ==
    LET order == SortOrder(keys, Len(s))
    IN  [i \in DOMAIN s |-> s[order[i]]]

Take(s, n) == SubSeq(s, 1, Min(Len(s), n))

\* key=lambda x: x[1]
PrelimKeys(s) == [i \in DOMAIN s |-> s[i].final]

\* key=lambda x: x.score
ScoreKeys(s) == [i \in DOMAIN s |-> s[i].score]

\* Validate with the job looked up before top_k is checked
ValidateJobFirst(job_id, top_k) ==
    IF job_id \notin DOMAIN jobs THEN 404
    ELSE IF top_k <= 0 THEN 400
    ELSE 0

\* the checks before any candidate is read: 0 when the request is accepted
Validate(job_id, top_k) ==
    IF top_k <= 0 THEN 400
    ELSE IF job_id \notin DOMAIN jobs THEN 404
    ELSE 0

\* Skipped without the test of the embedding
SkippedNever(c) == FALSE

\* `if candidate.embedding is None: continue`
Skipped(c) == c.embedding = NoEmbedding

\* PrelimScores with a neutral fit score of 5 given to composite_score
PrelimScoresNeutralFit(job, cands) ==
    LET scored == SelectSeq(cands, LAMBDA c : ~Skipped(c))
    IN  [i \in DOMAIN scored |->
            LET comps == composite_score(scored[i].embedding, job.embedding,
                                         scored[i].skills, job.required_skills,
                                         job.nice_to_have_skills, 50)
            IN  [c |-> scored[i], final |-> comps.final, comps |-> comps]]

\* the preliminary scoring loop, before the sort
PrelimScores(job, cands) ==
    LET scored == SelectSeq(cands, LAMBDA c : ~Skipped(c))
    IN  [i \in DOMAIN scored |->
            LET comps == composite_score(scored[i].embedding, job.embedding,
                                         scored[i].skills, job.required_skills,
                                         job.nice_to_have_skills, NoScore)
            IN  [c |-> scored[i], final |-> comps.final, comps |-> comps]]

\* whether the preliminary scoring loop raises (an unhandled TypeError)
PrelimRaises(job, cands) ==
    \E i \in DOMAIN cands :
        ~Skipped(cands[i]) /\ CosineRaises(cands[i].embedding, job.embedding)

\* ShortlistSize without the floor
ShortlistSizeNoFloor(top_k) == top_k * 2

ShortlistSize(top_k) == Max(MinShortlist, top_k * 2)

\* LoopItems over every scored candidate
LoopItemsAll == prelim

\* `for candidate, _, comps in shortlist`
LoopItems == shortlist

\* LoopDone after the first iteration
LoopDoneEarly == idx > Min(1, Len(LoopItems))

\* the for loop has gone through every item
LoopDone == idx > Len(LoopItems)

\* RowsAfterMatch with the embeddings of the rows read dropped
RowsAfterMatchDetached(rows) ==
    [i \in DOMAIN rows |-> [rows[i] EXCEPT !.embedding = NoEmbedding]]

\* the rows of a table when the session of match_candidates is closed:
\* the handler only reads (s.get, s.query) and never adds, deletes or commits
RowsAfterMatch(rows) == rows

\* Ranked without the truncation
RankedAll(res, top_k) == SortDesc(res, ScoreKeys(res))

\* Ranked without the sort
RankedUnsorted(res, top_k) == Take(res, top_k)

\* results[:top_k] after results.sort(key=score, reverse=True)
Ranked(res, top_k) == Take(SortDesc(res, ScoreKeys(res)), top_k)

-----------------------------------------------------------------------------
(* parsers/extract.py *)
(*                                                                         *)
(* A resume text is modelled by what the extractor's patterns find in it:  *)
(*   lines   the first lines of the text                                   *)
(*   skills  the vocabulary skills found, duplicates removed               *)
(*   exp     the experience statements and role keywords, in text order    *)
(*   work    the matches of the four work-history templates, in text order *)
(* A file is [exists, suffix, content, raises]; content is the text its     *)
(* reader returns, raises the field extractors that raise on that text.    *)

EmptyText == [lines |-> <<>>, skills |-> <<>>, exp |-> <<>>, work |-> <<>>]

\* A PDF as its two extraction libraries see it: what each yields, and
\* whether it raises after having yielded that
Blank(text) == text \in {"", "\n", "\n\n"}

\* read_pdf without the PyPDF2 attempt
read_pdf_no_fallback(pdf) ==
    [raised |-> "none", value |-> pdf.fitz.text, attempts |-> <<"fitz">>]

\* read_pdf: PyMuPDF first, PyPDF2 when that raised or gave only whitespace;
\* both attempts add to the same text
read_pdf(pdf) ==
    IF ~pdf.fitz.raised /\ ~Blank(pdf.fitz.text)
    THEN [raised |-> "none", value |-> pdf.fitz.text, attempts |-> <<"fitz">>]
    ELSE [raised |-> "none", value |-> pdf.fitz.text \o pdf.pypdf2.text,
          attempts |-> <<"fitz", "PyPDF2">>]

\* extract_text: the extension decides the reader; the path must exist first
ExtractTextSuffixFirst(file) ==
    LET extension == Lower(file.suffix)
        reader == CASE extension = ".pdf" -> "read_pdf"
                    [] extension \in {".docx", ".doc"} -> "read_docx"
                    [] extension = ".txt" -> "read_txt"
                    [] OTHER -> "none"
    IN  IF reader = "none"
        THEN [raised |-> "ValueError: Unsupported file format",
              value |-> EmptyText, readers |-> <<>>]
        ELSE IF ~file.exists
        THEN [raised |-> "FileNotFoundError", value |-> EmptyText, readers |-> <<>>]
        ELSE [raised |-> "none", value |-> file.content, readers |-> <<reader>>]

extract_text(file) ==
    LET extension == Lower(file.suffix)
        reader == CASE extension = ".pdf" -> "read_pdf"
                    [] extension \in {".docx", ".doc"} -> "read_docx"
                    [] extension = ".txt" -> "read_txt"
                    [] OTHER -> "none"
    IN  IF ~file.exists
        THEN [raised |-> "FileNotFoundError", value |-> EmptyText, readers |-> <<>>]
        ELSE IF reader = "none"
        THEN [raised |-> "ValueError: Unsupported file format",
              value |-> EmptyText, readers |-> <<>>]
        ELSE [raised |-> "none", value |-> file.content, readers |-> <<reader>>]

\* a line that names a resume header or contact information is skipped
HeaderLine(line) == line \in {"Resume", "Email: ann@x.org"}

\* a line with a PERSON entity, or of 2-4 capitalised alphabetic words
NameLine(line) == line \in {"Ann Lee"}

\* extract_name: the first qualifying line among the first ten, else None
RECURSIVE FirstName(_)
FirstName(lines) ==
    IF lines = <<>> THEN NoName
    ELSE IF ~HeaderLine(Head(lines)) /\ NameLine(Head(lines)) THEN Head(lines)
    ELSE FirstName(Tail(lines))

extract_name(text) == FirstName(Take(text.lines, 10))

\* re.search(pattern, text): the first statement of the phrasing, 0 if none
RECURSIVE Search(_, _, _)
Search(exp, phrasing, i) ==
    IF i > Len(exp) THEN 0
    ELSE IF exp[i].kind = phrasing THEN i
    ELSE Search(exp, phrasing, i + 1)

\* the loop over exp_patterns from its k-th pattern on
RECURSIVE TotalYears(_, _)
TotalYears(exp, patterns) ==
    IF patterns = <<>> THEN NoYears
    ELSE LET match == Search(exp, Head(patterns), 1)
         IN  IF match # 0 /\ exp[match].years > 0 /\ exp[match].years < 50
             THEN exp[match].years
             ELSE TotalYears(exp, Tail(patterns))

\* extract_experience; the date range it also reports is left out
extract_experience(text) ==
    [total_years |-> TotalYears(text.exp, <<"label_first", "number_first">>),
     work_history |-> <<>>]


\* str.strip() on the strings of the model
Strip(s) ==
    CASE s = " Software Engineer" -> "Software Engineer"
      [] s = " software engineer" -> "software engineer"
      [] s = " " -> ""
      [] OTHER -> s

\* rstrip(',;.\n|') followed by re.sub(r'\s+', ' ', ...)
Clean(s) ==
    CASE s = "Software Engineer," -> "Software Engineer"
      [] OTHER -> s

\* the matches of one template, in text order
OfTemplate(work, template) == SelectSeq(work, LAMBDA m : m.template = template)

\* the matches in the order the loops visit them: template by template
Visited(work) ==
    OfTemplate(work, "A") \o OfTemplate(work, "B")
        \o OfTemplate(work, "C") \o OfTemplate(work, "D")

\* the key under which an entry is remembered as seen
EntryKey(designation, company) == <<Strip(Lower(designation)), Strip(Lower(company))>>

\* the two loops of extract_work_experience over the visited matches
RECURSIVE Collect(_, _, _)
Collect(matches, seen_entries, work_history) ==
    IF matches = <<>> THEN work_history
    ELSE LET match == Head(matches)
             designation == Clean(Strip(match.title))
             company == Clean(Strip(match.company))
             key == EntryKey(designation, company)
         IN  IF Strip(match.title) = "" \/ Strip(match.company) = ""
             THEN Collect(Tail(matches), seen_entries, work_history)
             ELSE IF Len(company) < 2 \/ Len(company) > 60 \/ Len(designation) < 5
             THEN Collect(Tail(matches), seen_entries, work_history)
             ELSE IF key \in seen_entries
             THEN Collect(Tail(matches), seen_entries, work_history)
             ELSE Collect(Tail(matches), seen_entries \cup {key},
                          Append(work_history,
                                 [designation |-> designation, company |-> company]))

extract_work_experience(text) == Collect(Visited(text.work), {}, <<>>)

\* the field extractors in the order parse calls them
Extractors ==
    <<"extract_skills", "extract_education", "extract_experience",
      "extract_work_experience", "extract_name", "extract_email", "extract_phone">>

\* parse: the text of the file, then every field extractor; whatever one of
\* them raises is logged and raised again
parse(file) ==
    LET read == extract_text(file)
        text == read.value
        experience_data == extract_experience(text)
        failing == SelectSeq(Extractors, LAMBDA f : f \in file.raises)
    IN  IF read.raised # "none"
        THEN [raised |-> read.raised, value |-> <<>>]
        ELSE IF text = EmptyText
        THEN [raised |-> "ValueError: No text could be extracted", value |-> <<>>]
        ELSE IF failing # <<>>
        THEN [raised |-> "Exception in " \o Head(failing), value |-> <<>>]
        ELSE [raised |-> "none",
              value |-> [name |-> extract_name(text),
                         skills |-> text.skills,
                         total_experience_years |-> experience_data.total_years,
                         experience_details |-> experience_data,
                         work_history |-> extract_work_experience(text)]]

-----------------------------------------------------------------------------
(* Inputs of the model *)

\* all sequences over S of length at most n
BoundedSeq(S, n) == UNION {[1 .. k -> S] : k \in 0 .. n}

\* a match of one of the four work-history templates: the raw groups
WorkMatch(template, title, company) ==
    [template |-> template, title |-> title, company |-> company]

\* an experience statement of either phrasing, a role keyword, other words
ExpToken(kind, years) == [kind |-> kind, years |-> years]

\* the resume files uploaded to the service
UploadedFiles ==
    { [exists |-> TRUE, suffix |-> ".pdf", raises |-> {},
       content |-> [lines |-> <<"Resume">>, skills |-> <<"AWS">>,
                    exp |-> <<ExpToken("role", 0)>>,
                    work |-> <<WorkMatch("C", "Software Engineer", "Acme Corp"),
                               WorkMatch("C", "Acme Corp", "Software Engineer")>>]],
      [exists |-> TRUE, suffix |-> ".txt", raises |-> {},
       content |-> [lines |-> <<"Ann Lee">>, skills |-> <<"Python">>,
                    exp |-> <<ExpToken("number_first", 5)>>,
                    work |-> <<WorkMatch("D", "Software Engineer", "Acme Corp")>>]] }

\* what ResumeParser.parse returns for the resumes uploaded
ResumeInputs == {parse(file).value : file \in UploadedFiles}

\* the JobIn bodies posted
JobInputs ==
    { [title |-> "Backend", jd_text |-> "backend engineer",
       required_skills |-> <<"python", "sql", "docker">>,
       nice_to_have_skills |-> <<"aws", "git">>],
      [title |-> "Blank", jd_text |-> "",
       required_skills |-> <<>>, nice_to_have_skills |-> <<>>] }

\* what the Groq endpoint answers
Responses == {RespGood, RespTimeout}

\* the top_k values requested: a negative one, zero and a positive one
TopKs == {0 - MaxTopK, 0, MaxTopK}
JobIds == 1 .. (MaxJobs + 1)

-----------------------------------------------------------------------------
(* app.py: the handlers *)

\* get_model(): the encoder is loaded on first use; load_ok says whether
\* SentenceTransformer(...) succeeds when it is attempted
ModelAfter(load_ok) == IF model = "none" /\ load_ok THEN "loaded" ELSE model

\* SafeEmbed with a zero vector in place of None
SafeEmbedZeros(text, load_ok) ==
    IF ModelAfter(load_ok) = "loaded" THEN Embed(text) ELSE <<0, 0>>

\* _safe_embed(text): embed(text), or None when embed raises, which it does
\* when the encoder cannot be loaded
SafeEmbed(text, load_ok) ==
    IF ModelAfter(load_ok) = "loaded" THEN Embed(text) ELSE NoEmbedding

\* the response has been sent: the handler's locals are gone and the
\* server waits for the next request
NextRequest ==
    /\ pc = "done"
    /\ pc' = "idle"
    /\ req' = NoRequest
    /\ prelim' = <<>>
    /\ shortlist' = <<>>
    /\ idx' = 0
    /\ results' = <<>>
    /\ calls' = <<>>
    /\ replay' = NoReplay
    /\ response' = NoResponse
    /\ UNCHANGED <<candidates, jobs, model, call, ret,
                   threads, encoder>>

\* SeenKeys with the forward key only
SeenKeysForward(company, designation) == {<<company, designation>>}

\* key1 and key2 of the work-history loop: the pair in both orders
SeenKeys(company, designation) == {<<company, designation>>, <<designation, company>>}

\* the work-history loop of upload_candidate
RECURSIVE Unique(_, _, _)
Unique(work_history, seen, unique_work_history) ==
    IF work_history = <<>> THEN unique_work_history
    ELSE LET entry == Head(work_history)
             company == Strip(Lower(entry.company))
             designation == Strip(Lower(entry.designation))
         IN  IF company = "" \/ designation = ""
             THEN Unique(Tail(work_history), seen, unique_work_history)
             ELSE IF SeenKeys(company, designation) \cap seen # {}
             THEN Unique(Tail(work_history), seen, unique_work_history)
             ELSE Unique(Tail(work_history),
                         seen \cup SeenKeys(company, designation),
                         Append(unique_work_history, entry))

\* POST /candidates/upload, from the parser's result on
UploadCandidate(parsed, load_ok) ==
    /\ pc = "idle"
    /\ Len(candidates) < MaxCands
    /\ model = "loaded" => load_ok
    /\ LET raw_text == Str(parsed.name) \o " " \o Join(parsed.skills)
           embedding == SafeEmbed(raw_text, load_ok)
           unique_work_history == Unique(parsed.work_history, {}, <<>>)
           id == Len(candidates) + 1
       IN  /\ candidates' = Append(candidates,
                                   [id |-> id, name |-> parsed.name,
                                    raw_text |-> raw_text, skills |-> parsed.skills,
                                    experience_years |->
                                        parsed.experience_details.total_years,
                                    companies |-> unique_work_history,
                                    embedding |-> embedding])
           /\ response' = [op |-> "upload", status |-> 200,
                           body |-> <<[id |-> id, name |-> parsed.name,
                                       work_history |-> unique_work_history]>>]
    /\ model' = ModelAfter(load_ok)
    /\ pc' = "done"
    /\ UNCHANGED <<jobs, req, prelim, shortlist, idx, results, calls, replay,
                   call, ret,
                   threads, encoder>>

\* POST /jobs
CreateJob(job, load_ok) ==
    /\ pc = "idle"
    /\ IF job.jd_text = ""
       THEN /\ response' = [op |-> "create_job", status |-> 400, body |-> <<>>]
            /\ load_ok
            /\ UNCHANGED <<jobs, model>>
       ELSE /\ Len(jobs) < MaxJobs
            /\ model = "loaded" => load_ok
            /\ jobs' = Append(jobs,
                              [id |-> Len(jobs) + 1, title |-> job.title,
                               jd_text |-> job.jd_text,
                               required_skills |-> job.required_skills,
                               nice_to_have_skills |-> job.nice_to_have_skills,
                               embedding |-> SafeEmbed(job.jd_text, load_ok)])
            /\ response' = [op |-> "create_job", status |-> 200,
                            body |-> <<Len(jobs) + 1>>]
            /\ model' = ModelAfter(load_ok)
    /\ pc' = "done"
    /\ UNCHANGED <<candidates, req, prelim, shortlist, idx, results, calls, replay,
                   call, ret,
                   threads, encoder>>

\* FreshResults with the list kept from the previous request
StaleResults == results

\* `results: List[MatchResult] = []`
FreshResults == <<>>

\* GET /match/{job_id}, up to the start of the re-scoring loop
StartMatch(job_id, top_k, rp) ==
    /\ req' = [job_id |-> job_id, top_k |-> top_k]
    /\ replay' = rp
    /\ calls' = <<>>
    /\ candidates' = RowsAfterMatch(candidates)
    /\ jobs' = RowsAfterMatch(jobs)
    /\ UNCHANGED <<model, call, ret,
                   threads, encoder>>
    /\ IF Validate(job_id, top_k) # 0
       THEN /\ response' = [op |-> "match", status |-> Validate(job_id, top_k),
                            body |-> <<>>]
            /\ prelim' = <<>> /\ shortlist' = <<>> /\ results' = <<>>
            /\ idx' = 0
            /\ pc' = "done"
       ELSE IF candidates = <<>>
       THEN /\ response' = [op |-> "match", status |-> 200, body |-> <<>>]
            /\ prelim' = <<>> /\ shortlist' = <<>> /\ results' = <<>>
            /\ idx' = 0
            /\ pc' = "done"
       ELSE IF PrelimRaises(jobs[job_id], candidates)
       THEN /\ response' = [op |-> "match", status |-> 500, body |-> <<>>]
            /\ prelim' = <<>> /\ shortlist' = <<>> /\ results' = <<>>
            /\ idx' = 0
            /\ pc' = "done"
       ELSE LET scored == PrelimScores(jobs[job_id], candidates)
                sorted == SortDesc(scored, PrelimKeys(scored))
            IN  /\ prelim' = sorted
                /\ shortlist' = Take(sorted, ShortlistSize(top_k))
                /\ results' = FreshResults
                /\ idx' = 1
                /\ pc' = "rescoring"
                /\ response' = NoResponse

MatchCandidates(job_id, top_k) ==
    /\ pc = "idle"
    /\ StartMatch(job_id, top_k, NoReplay)

\* the arguments of an assessor call
CallArgs(job, c) == [jd_text |-> job.jd_text, resume_text |-> c.raw_text, name |-> c.name]

\* the arguments of the logged call for candidate id
LoggedArgs(id) == CallArgs(jobs[req.job_id], candidates[id])

\* a deterministic assessor answers equal arguments equally
Deterministic(log) ==
    \A i, j \in DOMAIN log :
        LoggedArgs(log[i].candidate_id) = LoggedArgs(log[j].candidate_id)
            => log[i].resp = log[j].resp

\* the assessor of a repeated request answers as it did the first time
AsBefore(args, resp) ==
    replay.on =>
        \A i \in DOMAIN replay.calls :
            LoggedArgs(replay.calls[i].candidate_id) = args => replay.calls[i].resp = resp

\* Appended with the candidates whose verdict carries no bullets left out
AppendedUnlessFailed(res, c, final_comps, llm) ==
    IF Get(llm, "bullets") = <<>> /\ Get(llm, "summary_bullets") = <<>>
    THEN res
    ELSE Append(res, MatchResult(c, final_comps, llm))

\* `results.append(MatchResult(...))`
Appended(res, c, final_comps, llm) == Append(res, MatchResult(c, final_comps, llm))

\* one iteration of the re-scoring loop: the assessor call, the re-score, the append
Rescore(resp) ==
    /\ pc = "rescoring"
    /\ ~LoopDone
    /\ LET job == jobs[req.job_id]
           c == LoopItems[idx].c
           a == Assess(job, c, resp)
           final_comps == composite_score(c.embedding, job.embedding, c.skills,
                                          job.required_skills,
                                          job.nice_to_have_skills, a.llm_fit)
       IN  /\ AsBefore(CallArgs(job, c), resp)
           /\ calls' = Append(calls, [candidate_id |-> c.id, resp |-> resp])
           /\ results' = Appended(results, c, final_comps, a.llm)
    /\ idx' = idx + 1
    /\ UNCHANGED <<call, ret, candidates, jobs, model, pc, req, prelim, shortlist,
                   response, replay,
                   threads, encoder>>

\* the final sort, the truncation and the return
MatchReturn ==
    /\ pc = "rescoring"
    /\ LoopDone
    /\ response' = [op |-> "match", status |-> 200, body |-> Ranked(results, req.top_k)]
    /\ pc' = "done"
    /\ UNCHANGED <<call, ret, candidates, jobs, model, req, prelim, shortlist, idx,
                   results, calls, replay,
                   threads, encoder>>

\* the same rank request again, with nothing stored in between and an
\* assessor that answers as before
MatchAgain ==
    /\ pc = "done"
    /\ response.op = "match"
    /\ ~replay.on
    /\ Deterministic(calls)
    /\ StartMatch(req.job_id, req.top_k,
                  [on |-> TRUE, response |-> response, calls |-> calls])

-----------------------------------------------------------------------------
(* matching/embedder.py: get_model and embed called from several threads   *)
(*                                                                         *)
(* create_job is a plain `def` route, which the server runs in a thread of *)
(* its pool; each thread here is one such handler inside its call of       *)
(* embed(text).  A thread can be suspended between any two of the steps.   *)

Threads == 1 .. MaxThreads

\* a thread about to run get_model: nothing constructed, nothing returned
ThreadStart == [pc |-> "test", instance |-> NoInstance, model |-> NoInstance]

\* `_model = None`, and no SentenceTransformer built yet
NoEncoder == [built |-> 0, current |-> NoInstance]

\* `if _model is None:`
GetModelTest(t) ==
    /\ threads[t].pc = "test"
    /\ threads' = [threads EXCEPT ![t].pc =
                       IF encoder.current = NoInstance THEN "construct" ELSE "return"]
    /\ UNCHANGED <<candidates, jobs, model, pc, req, prelim, shortlist, idx,
                   results, calls, response, replay, call, ret, encoder>>

\* `SentenceTransformer("paraphrase-MiniLM-L6-v2", ...)`: a new instance
GetModelConstruct(t) ==
    /\ threads[t].pc = "construct"
    /\ encoder' = [encoder EXCEPT !.built = encoder.built + 1]
    /\ threads' = [threads EXCEPT ![t].pc = "assign",
                                  ![t].instance = encoder.built + 1]
    /\ UNCHANGED <<candidates, jobs, model, pc, req, prelim, shortlist, idx,
                   results, calls, response, replay, call, ret>>

\* `_model = ...`: the global now holds the instance this thread built
GetModelAssign(t) ==
    /\ threads[t].pc = "assign"
    /\ encoder' = [encoder EXCEPT !.current = threads[t].instance]
    /\ model' = "loaded"
    /\ threads' = [threads EXCEPT ![t].pc = "return"]
    /\ UNCHANGED <<candidates, jobs, pc, req, prelim, shortlist, idx,
                   results, calls, response, replay, call, ret>>

\* `return _model`, and `model = get_model()` in embed
GetModelReturn(t) ==
    /\ threads[t].pc = "return"
    /\ threads' = [threads EXCEPT ![t].pc = "encode",
                                  ![t].model = encoder.current]
    /\ UNCHANGED <<candidates, jobs, model, pc, req, prelim, shortlist, idx,
                   results, calls, response, replay, call, ret, encoder>>

\* `model.encode(text, normalize_embeddings=True)` and the return of embed
EmbedEncode(t) ==
    /\ threads[t].pc = "encode"
    /\ threads' = [threads EXCEPT ![t].pc = "done"]
    /\ UNCHANGED <<candidates, jobs, model, pc, req, prelim, shortlist, idx,
                   results, calls, response, replay, call, ret, encoder>>

-----------------------------------------------------------------------------

Init ==
    /\ candidates = <<>>
    /\ jobs = <<>>
    /\ model = "none"
    /\ pc = "idle"
    /\ req = NoRequest
    /\ prelim = <<>>
    /\ shortlist = <<>>
    /\ idx = 0
    /\ results = <<>>
    /\ calls = <<>>
    /\ response = NoResponse
    /\ replay = NoReplay
    /\ call = NoCall
    /\ ret = NoReturn
    /\ threads = [t \in Threads |-> ThreadStart]
    /\ encoder = NoEncoder

Next ==
    \/ \E parsed \in ResumeInputs, load_ok \in BOOLEAN : UploadCandidate(parsed, load_ok)
    \/ \E job \in JobInputs, load_ok \in BOOLEAN : CreateJob(job, load_ok)
    \/ \E job_id \in JobIds, top_k \in TopKs : MatchCandidates(job_id, top_k)
    \/ \E resp \in Responses : Rescore(resp)
    \/ MatchReturn
    \/ NextRequest

Spec == Init /\ [][Next]_vars

\* the behaviours in which a rank request may be repeated
NextRepeat == Next \/ MatchAgain

SpecRepeat == Init /\ [][NextRepeat]_vars

\* the behaviours of the threads calling embed() at the same time
NextThreads ==
    \E t \in Threads :
        \/ GetModelTest(t)
        \/ GetModelConstruct(t)
        \/ GetModelAssign(t)
        \/ GetModelReturn(t)
        \/ EmbedEncode(t)

SpecThreads == Init /\ [][NextThreads]_vars

-----------------------------------------------------------------------------
(* The scorer and the parser called directly, and one upload of a file *)

SkillWords == {"Python", "python", "sql", "java"}
SkillLists == BoundedSeq(SkillWords, MaxSkills)
NiceLists == {<<>>, <<"aws">>, <<"AWS", "java">>}

\* fit scores in tenths: none, below the scale, on it, above it
FitScores == {NoScore, 0 - 10, 0, 55, 100, 150}

ExpTokens ==
    {ExpToken(kind, years) : kind \in {"label_first", "number_first"},
                             years \in {0, 5, 7, 50}}
        \cup {ExpToken("role", 0), ExpToken("other", 0)}

WorkPairs ==
    { <<"Software Engineer", "Acme Corp">>, <<"Acme Corp", "Software Engineer">>,
      <<"Software Engineer,", "ACME CORP">>, <<" Software Engineer", "Acme Corp">>,
      <<"Dev", "Acme Corp">>, <<"Software Engineer", "X">> }

WorkMatches ==
    {WorkMatch(template, pair[1], pair[2]) :
        template \in {"A", "B", "C", "D"}, pair \in WorkPairs}

Suffixes == {".pdf", ".PDF", ".docx", ".doc", ".txt", ".rtf", ""}

\* a text with the given first lines, experience tokens and template matches
Text(lines, exp, work) ==
    [lines |-> lines, skills |-> <<"Python">>, exp |-> exp, work |-> work]

Call(fn, args) == [fn |-> fn, args |-> args]

ScorerCalls ==
    {Call("rule_skill_overlap", [c_skills |-> s, required |-> r, nice |-> n]) :
        s \in SkillLists, r \in SkillLists, n \in NiceLists}
    \cup
    {Call("composite_score",
          [cand_embedding |-> ce, job_embedding |-> je, c_skills |-> s,
           required |-> r, nice |-> n, llm_score |-> fit]) :
        ce \in {<<39, 52>>, <<60, 25>>, <<0 - 52, 0 - 39>>},
        je \in {<<39, 52>>, <<25, 60>>},
        s \in {<<>>, <<"python", "java">>, <<"Python", "SQL", "aws">>},
        r \in {<<>>, <<"python", "sql">>},
        n \in {<<>>, <<"aws">>},
        fit \in FitScores}

ParserCalls ==
    {Call("extract_experience", Text(<<>>, exp, <<>>)) :
        exp \in BoundedSeq(ExpTokens, MaxTokens)}
    \cup
    {Call("extract_work_experience", Text(<<>>, <<>>, work)) :
        work \in BoundedSeq(WorkMatches, MaxMatches)}
    \cup
    {Call(fn, [exists |-> e, suffix |-> suffix, content |-> content, raises |-> {}]) :
        fn \in {"extract_text", "parse"}, e \in BOOLEAN, suffix \in Suffixes,
        content \in {EmptyText, Text(<<"Ann Lee">>, <<>>, <<>>)}}
    \cup
    {Call("parse", [exists |-> TRUE, suffix |-> suffix, content |-> content,
                    raises |-> raises]) :
        suffix \in {".pdf", ".rtf"},
        content \in {EmptyText, Text(<<"Ann Lee">>, <<>>, <<>>)},
        raises \in {{"extract_name"}, {"extract_education", "extract_phone"}}}
    \cup
    {Call("read_pdf", [fitz |-> [raised |-> r1, text |-> t1],
                       pypdf2 |-> [raised |-> r2, text |-> t2]]) :
        r1 \in BOOLEAN, r2 \in BOOLEAN,
        t1 \in {"", "\n", "Ann Lee\n"}, t2 \in {"", "\n", "Ann Lee\n"}}

\* every kind of outcome of the HTTP call to the Groq endpoint
GroqAnswers ==
    {RespGood, RespTimeout, RespConnError, RespNotJson,
     Response("http_error", "object", "missing", 0, <<>>, <<>>, "429 Too Many Requests"),
     Response("ok", "array", "missing", 0, <<>>, <<>>, "[]")}
    \cup
    {Response("ok", "object", fit_kind, fit, bullets, <<"no SQL">>, "{...}") :
        fit_kind \in {"num", "missing", "text", "null", "nan"},
        fit \in {0 - 30, 0, 10, 75, 100, 150},
        bullets \in {<<>>, <<"strong fit">>}}

AssessorCalls ==
    {Call("llm_match_groq",
          [jd_text |-> "backend engineer", resume_text |-> "Ann Lee Python",
           name |-> "Ann Lee", resp |-> resp]) : resp \in GroqAnswers}

UploadCalls ==
    {Call("upload_candidate", [exists |-> TRUE, suffix |-> suffix, content |-> content,
                               raises |-> {}]) :
        suffix \in {".pdf", ".rtf"},
        content \in {EmptyText, Text(<<"Resume">>, <<>>, <<>>)}}
    \cup
    {Call("upload_candidate",
          [exists |-> TRUE, suffix |-> ".pdf", raises |-> {},
           content |-> Text(<<"Resume", "Ann Lee">>, <<>>, work)]) :
        work \in BoundedSeq(WorkMatches, MaxMatches)}

\* the function called returns: ret holds what it returned or raised
Return(outcome) ==
    /\ ret = NoReturn
    /\ ret' = outcome
    /\ UNCHANGED <<candidates, jobs, model, pc, req, prelim, shortlist, idx,
                   results, calls, response, replay, call,
                   threads, encoder>>

RuleSkillOverlap ==
    /\ call.fn = "rule_skill_overlap"
    /\ Return([raised |-> "none",
            value |-> rule_skill_overlap(call.args.c_skills, call.args.required,
                                         call.args.nice)])

CompositeScore ==
    /\ call.fn = "composite_score"
    /\ Return([raised |-> "none",
            value |-> composite_score(call.args.cand_embedding, call.args.job_embedding,
                                      call.args.c_skills, call.args.required,
                                      call.args.nice, call.args.llm_score)])

ExtractExperience ==
    /\ call.fn = "extract_experience"
    /\ Return([raised |-> "none", value |-> extract_experience(call.args)])

ExtractWorkExperience ==
    /\ call.fn = "extract_work_experience"
    /\ Return([raised |-> "none", value |-> extract_work_experience(call.args)])

ExtractText ==
    /\ call.fn = "extract_text"
    /\ Return(extract_text(call.args))

Parse ==
    /\ call.fn = "parse"
    /\ Return(parse(call.args))

ReadPdf ==
    /\ call.fn = "read_pdf"
    /\ Return(read_pdf(call.args))

\* llm_match_groq's outcome as a return: raised is "none" unless an
\* exception leaves the function
LlmMatchGroq ==
    /\ call.fn = "llm_match_groq"
    /\ LET out == llm_match_groq(call.args.jd_text, call.args.resume_text,
                                 call.args.name, call.args.resp)
       IN  Return([raised |-> IF out.raised THEN "Exception" ELSE "none",
                   value |-> out.value])

\* POST /candidates/upload with the file in call.args: the file is saved and
\* parsed; a parser error is answered with HTTP 500, a result is stored
UploadFile(load_ok) ==
    /\ call.fn = "upload_candidate"
    /\ LET result == parse(call.args)
       IN  IF result.raised # "none"
           THEN /\ pc = "idle"
                /\ load_ok
                /\ response' = [op |-> "upload", status |-> 500, body |-> <<>>]
                /\ pc' = "done"
                /\ UNCHANGED <<candidates, jobs, model, req, prelim, shortlist, idx,
                               results, calls, replay, call, ret,
                   threads, encoder>>
           ELSE UploadCandidate(result.value, load_ok)

InitLib ==
    /\ candidates = <<>>
    /\ jobs = <<>>
    /\ model = "none"
    /\ pc = "idle"
    /\ req = NoRequest
    /\ prelim = <<>>
    /\ shortlist = <<>>
    /\ idx = 0
    /\ results = <<>>
    /\ calls = <<>>
    /\ response = NoResponse
    /\ replay = NoReplay
    /\ call \in ScorerCalls \cup ParserCalls \cup AssessorCalls \cup UploadCalls
    /\ ret = NoReturn
    /\ threads = [t \in Threads |-> ThreadStart]
    /\ encoder = NoEncoder

NextLib ==
    \/ RuleSkillOverlap
    \/ CompositeScore
    \/ ExtractExperience
    \/ ExtractWorkExperience
    \/ ExtractText
    \/ Parse
    \/ ReadPdf
    \/ LlmMatchGroq
    \/ \E load_ok \in BOOLEAN : UploadFile(load_ok)

SpecLib == InitLib /\ [][NextLib]_vars

-----------------------------------------------------------------------------
(* Vocabulary of the properties *)

\* a rank request has returned
MatchDone == pc = "done" /\ response.op = "match"

\* a rank request has returned a ranked list
MatchOk == MatchDone /\ response.status = 200

\* the request names a stored job and a positive top_k
Accepted == req.top_k > 0 /\ req.job_id \in DOMAIN jobs

\* the stored candidates that have an embedding
Embedded == {i \in DOMAIN candidates : candidates[i].embedding # NoEmbedding}

CandidateIds(entries) == [i \in DOMAIN entries |-> entries[i].c.id]
ResultIds(res) == [i \in DOMAIN res |-> res[i].candidate_id]

\* the justification shows the "unavailable" marker
HasMarker(justification) ==
    \E k \in DOMAIN justification : justification[k] = "- " \o UNAVAILABLE

NonIncreasing(keys) ==
    \A i, j \in DOMAIN keys : i < j => keys[i] >= keys[j]

\* short is the first n entries of pre (all of them when there are fewer), pre
\* holds every embedded candidate once in non-increasing order of its
\* preliminary final score, and nothing left out scores higher than an entry kept
TopOfPrelim(short, pre, n) ==
    /\ Len(short) = Min(n, Len(pre))
    /\ \A i \in DOMAIN short : short[i] = pre[i]
    /\ NonIncreasing([i \in DOMAIN pre |-> pre[i].final])
    /\ ToSet(CandidateIds(pre)) = Embedded
    /\ Cardinality(Embedded) = Len(pre)
    /\ \A i \in DOMAIN short, j \in DOMAIN pre : j > Len(short) => short[i].final >= pre[j].final
    /\ \A i \in DOMAIN pre :
          pre[i].final = composite_score(pre[i].c.embedding, jobs[req.job_id].embedding,
                                         pre[i].c.skills, jobs[req.job_id].required_skills,
                                         jobs[req.job_id].nice_to_have_skills, NoScore).final

\* the direct call of fn has returned or raised
Returned(fn) == call.fn = fn /\ ret # NoReturn

\* a skill list as a case-insensitive set
Folded(skills) == {Lower(x) : x \in ToSet(skills)}

\* |A|, or 1 for the empty set
Floor1(A) == Max(Cardinality(A), 1)

\* the upload of the file in call.args has stored a candidate
Uploaded ==
    /\ call.fn = "upload_candidate"
    /\ pc = "done"
    /\ response.op = "upload"
    /\ response.status = 200

\* the lower-cased, trimmed (designation, company) pair of an entry
PairOf(entry) == <<Strip(Lower(entry.designation)), Strip(Lower(entry.company))>>

Swap(pair) == <<pair[2], pair[1]>>

\* no two entries have equal pairs
NoEqualPairs(work_history) ==
    \A i, j \in DOMAIN work_history :
        i < j => PairOf(work_history[i]) # PairOf(work_history[j])

\* no two entries have pairs that are swaps of each other
NoSwappedPairs(work_history) ==
    \A i, j \in DOMAIN work_history :
        i < j => PairOf(work_history[i]) # Swap(PairOf(work_history[j]))

\* the explicit statements of a text, and their values within (0, 50)
Statements(exp) == {i \in DOMAIN exp : exp[i].kind \in {"label_first", "number_first"}}
ValidYears(exp) ==
    {exp[i].years : i \in {k \in Statements(exp) : exp[k].years > 0 /\ exp[k].years < 50}}
RoleKeywords(exp) == Cardinality({i \in DOMAIN exp : exp[i].kind = "role"})

\* every component of a breakdown lies in [0,1]
InUnitRange(v) ==
    \A x \in {v.similarity, v.req_cover, v.nice_cover, v.llm} : 0 <= x /\ x <= Unit

-----------------------------------------------------------------------------
(* Properties *)

\* C1: whenever the assessor fails for a shortlisted candidate, that
\* candidate's result has llm component 0 and a justification with the
\* "LLM scoring unavailable" marker.
C1_FailureGivesSentinel ==
    \A i \in DOMAIN calls, j \in DOMAIN results :
        (Failed(calls[i].resp) /\ results[j].candidate_id = calls[i].candidate_id)
            => /\ results[j].components.llm = 0
               /\ HasMarker(results[j].justification)

C3_ResultsFromShortlist ==
    MatchDone =>
        \A i \in DOMAIN response.body :
            response.body[i].candidate_id \in ToSet(CandidateIds(shortlist))

C3_Witness ==
    /\ MatchOk
    /\ Len(prelim) > Len(shortlist)
    /\ Len(response.body) = 2

\* C4 as claimed: when shortlisting has run, the shortlist is the top
\* max(10, 2*top_k) of the preliminary scores.
C4_ShortlistTop10 ==
    (pc = "rescoring" /\ idx = 1) =>
        TopOfPrelim(shortlist, prelim, Max(10, 2 * req.top_k))

\* C4 as amended: when shortlisting has run, the shortlist is exactly the top
\* max(5, 2*top_k) candidates in descending order of preliminary final score,
\* or all preliminarily scored candidates when fewer exist.
C4_ShortlistTop5 ==
    (pc = "rescoring" /\ idx = 1) =>
        TopOfPrelim(shortlist, prelim, Max(5, 2 * req.top_k))

C4_Witness ==
    /\ pc = "rescoring"
    /\ Len(prelim) = 6
    /\ Len(shortlist) = 5
    /\ prelim[1].final > prelim[6].final

\* C5: a stored candidate without an embedding is skipped, not an error: the
\* request for a stored job with an embedding still returns a list, and the
\* candidate is never scored, shortlisted, passed to the assessor or returned.
C5_NoEmbeddingExcluded ==
    /\ (MatchDone /\ Accepted /\ jobs[req.job_id].embedding # NoEmbedding) => MatchOk
    /\ ToSet(CandidateIds(prelim)) \subseteq Embedded
    /\ ToSet(CandidateIds(shortlist)) \subseteq Embedded
    /\ \A i \in DOMAIN calls : calls[i].candidate_id \in Embedded
    /\ ToSet(ResultIds(results)) \subseteq Embedded
    /\ MatchDone => ToSet(ResultIds(response.body)) \subseteq Embedded

C5_Witness ==
    /\ MatchOk
    /\ Embedded # DOMAIN candidates
    /\ Len(response.body) = 2
    /\ Len(calls) = Cardinality(Embedded)

\* C6: when the job's embedding is absent, a rank request returns an empty
\* ranked list rather than an error.
C6_NoJobEmbeddingGivesEmpty ==
    (MatchDone /\ Accepted /\ jobs[req.job_id].embedding = NoEmbedding) =>
        (MatchOk /\ response.body = <<>>)

\* C7: for a stored job with an embedding and top_k > 0, rank returns
\* exactly min(top_k, n) results, n the number of stored candidates with an
\* embedding; an empty pool or a pool without embeddings gives an empty list.
C7_ResultCount ==
    (MatchDone /\ Accepted /\ jobs[req.job_id].embedding # NoEmbedding) =>
        /\ MatchOk
        /\ Len(response.body) = Min(req.top_k, Cardinality(Embedded))

C7_Witness ==
    /\ MatchOk
    /\ req.top_k = 2
    /\ Cardinality(Embedded) = 1
    /\ Len(candidates) > 1
    /\ Len(response.body) = 1

\* C8: top_k <= 0 is answered 400 (also for an unknown job id), an unknown
\* job id with top_k > 0 is answered 404, and in both cases no candidate is
\* scored and no assessor call is made.
C8_RejectedRequests ==
    MatchDone =>
        /\ req.top_k <= 0 => response.status = 400
        /\ (req.top_k > 0 /\ req.job_id \notin DOMAIN jobs) => response.status = 404
        /\ response.status \in {400, 404} =>
              /\ ~Accepted
              /\ prelim = <<>> /\ shortlist = <<>> /\ results = <<>>
              /\ calls = <<>>
              /\ response.body = <<>>

C8_Witness ==
    /\ MatchDone
    /\ req.top_k <= 0
    /\ req.job_id \notin DOMAIN jobs
    /\ response.status = 400
    /\ Embedded # {}

\* C9: the returned list is in non-increasing order of score and holds the
\* top_k highest scores of the re-scored shortlist: no re-scored candidate
\* left out has a strictly higher score than one returned.
C9_RankedByScore ==
    MatchOk =>
        /\ NonIncreasing([i \in DOMAIN response.body |-> response.body[i].score])
        /\ ToSet(response.body) \subseteq ToSet(results)
        /\ Len(response.body) = Min(req.top_k, Len(results))
        /\ \A i \in DOMAIN response.body, j \in DOMAIN results :
              results[j].candidate_id \notin ToSet(ResultIds(response.body))
                  => response.body[i].score >= results[j].score

C9_Witness ==
    /\ MatchOk
    /\ Len(results) > Len(response.body)
    /\ Len(response.body) = 2
    /\ response.body[1].candidate_id # results[1].candidate_id
    /\ response.body[1].score > response.body[2].score

\* C10: a rank request repeated with the same job id and top_k, against the
\* same stored data and an assessor that answers as before, returns the
\* same response: the same candidates in the same order with the same scores
\* and component breakdowns.
C10_RepeatIsIdentical ==
    (replay.on /\ MatchDone) => response = replay.response

C10_Witness ==
    /\ replay.on
    /\ MatchOk
    /\ Len(response.body) = 2
    /\ Len(prelim) > Len(shortlist)
    /\ \E i, j \in DOMAIN calls : Failed(calls[i].resp) /\ ~Failed(calls[j].resp)

\* C11: rule_skill_overlap returns req_cover = |S n R| / max(|R|, 1) and
\* nice_cover = |S n N| / max(|N|, 1) over case-insensitive sets; both lie in
\* [0,1]; an empty required or nice-to-have list gives 0; required
\* {python, sql}, nice {aws}, candidate {python, java} give 0.5 and 0.
C11_SkillCovers ==
    Returned("rule_skill_overlap") =>
        LET S == Folded(call.args.c_skills)
            R == Folded(call.args.required)
            N == Folded(call.args.nice)
            v == ret.value
        IN  /\ v.req_cover * Floor1(R) = Unit * Cardinality(S \cap R)
            /\ v.nice_cover * Floor1(N) = Unit * Cardinality(S \cap N)
            /\ 0 <= v.req_cover /\ v.req_cover <= Unit
            /\ 0 <= v.nice_cover /\ v.nice_cover <= Unit
            /\ R = {} => v.req_cover = 0
            /\ N = {} => v.nice_cover = 0
            /\ (S = {"python", "java"} /\ R = {"python", "sql"} /\ N = {"aws"})
                  => (2 * v.req_cover = Unit /\ v.nice_cover = 0)

C11_Witness ==
    /\ Returned("rule_skill_overlap")
    /\ call.args.c_skills = <<"Python", "java">>
    /\ call.args.required = <<"python", "sql">>
    /\ call.args.nice = <<"aws">>
    /\ 2 * ret.value.req_cover = Unit
    /\ ret.value.nice_cover = 0

\* C12 as claimed: req_cover(S,R) = 1 if and only if R is a subset of S under
\* case-insensitive comparison.
C12_FullCoverIffSubset ==
    Returned("rule_skill_overlap") =>
        (ret.value.req_cover = Unit
            <=> Folded(call.args.required) \subseteq Folded(call.args.c_skills))

\* C12 as amended: req_cover(S,R) = 1 if and only if R is not empty and is a
\* subset of S under case-insensitive comparison; for an empty R it is 0.
C12_FullCoverIffNonEmptySubset ==
    Returned("rule_skill_overlap") =>
        LET S == Folded(call.args.c_skills)
            R == Folded(call.args.required)
        IN  /\ ret.value.req_cover = Unit <=> (R # {} /\ R \subseteq S)
            /\ R = {} => ret.value.req_cover = 0

C12_Witness ==
    /\ Returned("rule_skill_overlap")
    /\ call.args.c_skills = <<"Python", "sql">>
    /\ call.args.required = <<"sql", "python">>
    /\ ret.value.req_cover = Unit

\* C13: composite_score computes final = 0.45 similarity + 0.35 req_cover
\* + 0.10 nice_cover + 0.10 llm, the weights sum to 1, and final lies in [0,1]
\* whenever the four components lie in [0,1].
C13_WeightedSum ==
    /\ W_SIM + W_REQ + W_NICE + W_LLM = 100
    /\ Returned("composite_score") =>
          LET v == ret.value
          IN  /\ v.final = 45 * v.similarity + 35 * v.req_cover
                              + 10 * v.nice_cover + 10 * v.llm
              /\ InUnitRange(v) => (0 <= v.final /\ v.final <= 100 * Unit)

C13_Witness ==
    /\ Returned("composite_score")
    /\ InUnitRange(ret.value)
    /\ ret.value.llm = Unit
    /\ ret.value.final = 100 * Unit

\* C14: a supplied LLM fit score is normalised to min(1, max(0, score/10));
\* without one the llm component is 0, the other weights are unchanged, so
\* final = 0.45 similarity + 0.35 req_cover + 0.10 nice_cover, at most 0.9 for
\* components in [0,1].
C14_LlmNormalised ==
    Returned("composite_score") =>
        LET v == ret.value
            score == call.args.llm_score
        IN  /\ score # NoScore => v.llm = Min(Unit, Max(0, (score * Unit) \div 100))
            /\ score = NoScore =>
                  /\ v.llm = 0
                  /\ v.final = 45 * v.similarity + 35 * v.req_cover + 10 * v.nice_cover
                  /\ InUnitRange(v) => v.final <= 90 * Unit

C14_Witness ==
    /\ Returned("composite_score")
    /\ call.args.llm_score = NoScore
    /\ InUnitRange(ret.value)
    /\ ret.value.final = 90 * Unit

\* C15: after an upload, the work history stored for the candidate and the one
\* returned to the caller hold no two entries whose lower-cased, trimmed
\* (designation, company) pairs are equal or swaps of each other; a pair
\* followed by its swap leaves exactly one entry.
C15_UploadDeduplicates ==
    Uploaded =>
        LET extracted == parse(call.args).value.work_history
            stored == candidates[Len(candidates)].companies
            returned == response.body[1].work_history
        IN  /\ NoEqualPairs(stored) /\ NoSwappedPairs(stored)
            /\ NoEqualPairs(returned) /\ NoSwappedPairs(returned)
            /\ (Len(extracted) = 2 /\ ~NoSwappedPairs(extracted))
                  => (stored = <<extracted[1]>> /\ returned = <<extracted[1]>>)

C15_Witness ==
    /\ Uploaded
    /\ Len(parse(call.args).value.work_history) = 2
    /\ ~NoSwappedPairs(parse(call.args).value.work_history)
    /\ Len(candidates[Len(candidates)].companies) = 1
    /\ Len(response.body[1].work_history) = 1

\* C16 as claimed: the work history returned by extract_work_experience holds
\* no two entries with the same normalised (designation, company) pair and no
\* two entries that are a swapped pair of each other.
C16_ExtractorDeduplicates ==
    Returned("extract_work_experience") =>
        (NoEqualPairs(ret.value) /\ NoSwappedPairs(ret.value))

\* C17 as claimed: when name extraction leaves the name unresolved, the stored
\* Candidate record has name "Unknown".
C17_UnresolvedNameIsUnknown ==
    (Uploaded /\ extract_name(call.args.content) = NoName) =>
        candidates[Len(candidates)].name = "Unknown"

\* C18 as claimed: if the text holds an explicit years-of-experience statement
\* with a value strictly between 0 and 50, total experience years is that
\* number, whatever role keywords the text holds; a value outside (0, 50) is
\* never accepted.
C18_ExplicitStatementWins ==
    Returned("extract_experience") =>
        LET total == ret.value.total_years
        IN  /\ ValidYears(call.args.exp) # {} => total \in ValidYears(call.args.exp)
            /\ total # NoYears => (total > 0 /\ total < 50)

\* C19 as claimed: without an explicit years-of-experience statement, total
\* experience years is 0.5 times the number of role keywords, capped at 10.
C19_KeywordFallback ==
    (Returned("extract_experience") /\ Statements(call.args.exp) = {}) =>
        /\ ret.value.total_years # NoYears
        /\ 2 * ret.value.total_years = Min(RoleKeywords(call.args.exp), 20)

\* C20: extract_text on a path that does not exist raises FileNotFoundError,
\* and on an existing file whose extension is none of pdf, docx, doc, txt
\* raises the unsupported-format error; no reader is called in either case,
\* and existence is checked before the extension.
C20_MissingOrUnsupported ==
    Returned("extract_text") =>
        LET file == call.args
            supported == Lower(file.suffix) \in {".pdf", ".docx", ".doc", ".txt"}
        IN  /\ ~file.exists =>
                  (ret.raised = "FileNotFoundError" /\ ret.readers = <<>>)
            /\ (file.exists /\ ~supported) =>
                  (ret.raised = "ValueError: Unsupported file format"
                   /\ ret.readers = <<>>)

C20_Witness ==
    /\ Returned("extract_text")
    /\ ~call.args.exists
    /\ call.args.suffix = ".rtf"
    /\ ret.raised = "FileNotFoundError"
    /\ ret.readers = <<>>

\* C21 as claimed: read_pdf never raises; the secondary method is attempted
\* exactly when the primary one failed or yielded only whitespace; when
\* neither yields non-whitespace text it returns the empty string.
C21_PdfReaderReturnsEmpty ==
    Returned("read_pdf") =>
        LET pdf == call.args
        IN  /\ ret.raised = "none"
            /\ ("PyPDF2" \in ToSet(ret.attempts))
                  <=> (pdf.fitz.raised \/ Blank(pdf.fitz.text))
            /\ (Blank(pdf.fitz.text) /\ Blank(pdf.pypdf2.text)) => ret.value = ""

\* C21 as amended: read_pdf never raises; the secondary method is attempted
\* exactly when the primary one failed or yielded only whitespace; when
\* neither yields non-whitespace text it returns a text without any
\* non-whitespace character (the whitespace both methods yielded).
C21_PdfReaderReturnsBlank ==
    Returned("read_pdf") =>
        LET pdf == call.args
        IN  /\ ret.raised = "none"
            /\ ("PyPDF2" \in ToSet(ret.attempts))
                  <=> (pdf.fitz.raised \/ Blank(pdf.fitz.text))
            /\ (Blank(pdf.fitz.text) /\ Blank(pdf.pypdf2.text)) =>
                  (Blank(ret.value) /\ ret.value = pdf.fitz.text \o pdf.pypdf2.text)

C21_Witness ==
    /\ Returned("read_pdf")
    /\ call.args.fitz = [raised |-> FALSE, text |-> "\n"]
    /\ call.args.pypdf2 = [raised |-> TRUE, text |-> ""]
    /\ ret.attempts = <<"fitz", "PyPDF2">>
    /\ ret.value = "\n"

\* C22 as claimed: parse fails with the no-text error exactly when the
\* extracted text is empty, and whenever the text is not empty it returns a
\* complete record, even if a field extractor fails.
C22_ParseDegradesPerField ==
    Returned("parse") =>
        LET read == extract_text(call.args)
        IN  /\ ret.raised = "ValueError: No text could be extracted"
                  <=> (read.raised = "none" /\ read.value = EmptyText)
            /\ (read.raised = "none" /\ read.value # EmptyText) =>
                  /\ ret.raised = "none"
                  /\ DOMAIN ret.value = {"name", "skills", "total_experience_years",
                                         "experience_details", "work_history"}

\* C30: llm_match_groq never lets an exception out: for every outcome of the
\* external call (timeout, network or HTTP error, non-JSON body, missing or
\* non-numeric fit_score) it returns a verdict whose fit_score is in [1,10].
C30_AssessorAlwaysReturns ==
    Returned("llm_match_groq") =>
        /\ ret.raised = "none"
        /\ DOMAIN ret.value = {"bullets", "fit_score", "concerns"}
        /\ 10 <= ret.value.fit_score /\ ret.value.fit_score <= 100

C30_Witness ==
    /\ Returned("llm_match_groq")
    /\ call.args.resp = RespTimeout
    /\ ret.raised = "none"
    /\ ret.value.fit_score = 50

\* the verdict the assessor returned for the i-th re-scored candidate
VerdictOf(i) ==
    LET c == candidates[results[i].candidate_id]
    IN  llm_match_groq(jobs[req.job_id].jd_text, c.raw_text, c.name, calls[i].resp).value

\* the text of a verdict's key, "" when the key is missing
TextOf(verdict, key) == IF key \in DOMAIN verdict THEN verdict[key] ELSE ""

\* C23: the justification of a result contains the Summary, Key Strengths,
\* Concerns and Reasoning section exactly when the assessor's verdict for that
\* candidate has non-empty summary bullets, key strengths, concerns and
\* reasoning respectively.
C23_SectionsFollowVerdict ==
    \A i \in DOMAIN results :
        LET verdict == VerdictOf(i)
            lines == ToSet(results[i].justification)
        IN  /\ ("**Summary:**" \in lines) <=> (verdict.bullets # <<>>)
            /\ ("\n**Key Strengths:**" \in lines) <=> (Get(verdict, "key_strengths") # <<>>)
            /\ ("\n**Concerns:**" \in lines) <=> (verdict.concerns # <<>>)
            /\ (("\n**Reasoning:** " \o TextOf(verdict, "reasoning")) \in lines)
                  <=> (TextOf(verdict, "reasoning") # "")

\* C25: within one rank request the assessor is called exactly once for each
\* shortlisted candidate, in shortlist order, never for a candidate outside
\* the shortlist, and the list is sorted and returned only when every
\* shortlisted candidate has its outcome.
C25_OneCallPerShortlisted ==
    /\ Len(calls) <= Len(shortlist)
    /\ \A i \in DOMAIN calls : calls[i].candidate_id = shortlist[i].c.id
    /\ \A i, j \in DOMAIN shortlist : i # j => shortlist[i].c.id # shortlist[j].c.id
    /\ pc = "rescoring" => response = NoResponse
    /\ (MatchDone /\ shortlist # <<>>) =>
          /\ Len(calls) = Len(shortlist)
          /\ Len(results) = Len(shortlist)
          /\ response.body = Ranked(results, req.top_k)

C25_Witness ==
    /\ MatchOk
    /\ Len(prelim) = 6
    /\ Len(calls) = 5
    /\ Len(response.body) = 2

\* a step of a rank request
MatchStep == pc = "rescoring" \/ (pc = "idle" /\ req' # NoRequest)

\* C26: no step of a rank request creates, modifies or deletes a candidate or
\* a job record, whether the request ends in a ranked list, an empty list or
\* an error, and a request starts its re-scoring with no result kept from an
\* earlier request.
C26_RankRequestOnlyReads ==
    [][MatchStep =>
          /\ candidates' = candidates
          /\ jobs' = jobs
          /\ (pc = "idle" => results' = <<>>)]_vars

C26_Witness ==
    /\ MatchOk
    /\ Len(candidates) = 3
    /\ Embedded # DOMAIN candidates
    /\ Len(jobs) = 1
    /\ Len(response.body) = 2

\* C27: if a candidate is promoted to the shortlist, every candidate with the
\* same preliminary final score is promoted as well.
C27_TiesPromotedTogether ==
    pc = "rescoring" =>
        \A i \in DOMAIN shortlist, j \in DOMAIN prelim :
            prelim[j].final = shortlist[i].final => j <= Len(shortlist)

\* an upload during which the encoder could not be loaded has answered
UploadWithoutEmbedding == pc = "done" /\ response.op = "upload" /\ model = "none"

\* the upload succeeded and stored its candidate with a null embedding, and
\* no candidate with a null embedding is scored, assessed or returned
NullEmbeddingUnranked ==
    /\ UploadWithoutEmbedding =>
          /\ response.status = 200
          /\ candidates # <<>>
          /\ candidates[Len(candidates)].id = response.body[1].id
          /\ candidates[Len(candidates)].embedding = NoEmbedding
    /\ \A i \in DOMAIN results :
          candidates[results[i].candidate_id].embedding # NoEmbedding
    /\ \A i \in DOMAIN response.body :
          response.op = "match" =>
              candidates[response.body[i].candidate_id].embedding # NoEmbedding

\* C28: if embedding generation fails during an upload, the upload still
\* succeeds and the candidate is stored with a null embedding; the embedding
\* of a stored candidate never changes afterwards, and a candidate with a
\* null embedding never appears in the result of a rank request.
C28_FailedEmbeddingNeverRanked ==
    [][/\ NullEmbeddingUnranked
       /\ NullEmbeddingUnranked'
       /\ \A i \in DOMAIN candidates :
             /\ i \in DOMAIN candidates'
             /\ candidates'[i].embedding = candidates[i].embedding]_vars

C28_Witness ==
    /\ MatchOk
    /\ Len(candidates) = 3
    /\ candidates[1].embedding = NoEmbedding
    /\ candidates[2].embedding = NoEmbedding
    /\ ResultIds(response.body) = <<3>>

\* C29: for every shortlisted candidate the re-scored breakdown (as the
\* result reports it, rounded) has the similarity, req_cover and nice_cover of
\* its preliminary breakdown, and its final score is the preliminary final
\* score plus 0.10 times the normalised llm component, hence never lower.
C29_RescoreAddsLlmTerm ==
    \A i \in DOMAIN results :
        LET c == shortlist[i].c
            pre == shortlist[i].comps
            post == results[i].components
            llm == LlmNorm(Assess(jobs[req.job_id], c, calls[i].resp).llm_fit)
        IN  /\ results[i].candidate_id = c.id
            /\ pre.final = shortlist[i].final
            /\ pre.llm = 0
            /\ post.similarity = Round3(pre.similarity)
            /\ post.req_cover = Round3(pre.req_cover)
            /\ post.nice_cover = Round3(pre.nice_cover)
            /\ post.llm = Round3(llm)
            /\ post.final = Round3Final(pre.final + W_LLM * llm)
            /\ results[i].score = RoundScore(pre.final + W_LLM * llm)
            /\ pre.final + W_LLM * llm >= pre.final

C29_Witness ==
    /\ pc = "rescoring"
    /\ Len(results) = 2
    /\ results[1].components.llm # results[2].components.llm
    /\ results[1].score > RoundScore(shortlist[1].final)
    /\ results[2].score > RoundScore(shortlist[2].final)

\* C24: under concurrent first calls of the embedding generator from several
\* threads, the embedding model is constructed at most once and every caller
\* uses that same instance.
C24_ModelConstructedOnce ==
    /\ encoder.built <= 1
    /\ \A t, u \in Threads :
          (threads[t].model # NoInstance /\ threads[u].model # NoInstance)
              => threads[t].model = threads[u].model

====
